---- MODULE Spec2Model ----
(***************************************************************************)
(* Model of the localchat streaming pipeline: the chat component           *)
(* (frontend/src/components/Chat.tsx), the message service sendMessage     *)
(* with its stream reader (frontend/src/services/api.ts) and the message   *)
(* input (frontend/src/components/MessageInput.tsx).                       *)
(*                                                                         *)
(* Text is modelled as a sequence of one-character strings, so that        *)
(* splitting, prefix tests and concatenation are computed as the code      *)
(* computes them on JavaScript strings.                                    *)
(***************************************************************************)
EXTENDS FiniteSets, Integers, Sequences, TLC

(***************************************************************************)
(* Bounds of the model.                                                    *)
(***************************************************************************)
\* number of submissions made in one run
MaxSubmits == 2
\* number of framed blocks in a response body fed to the stream reader
MaxBlocks == 3
\* number of pieces (fence, newline, header row, separator row, dashes, letter)
\* in a text given to the sanitizer
MaxPieces == 5
\* number of getOllamaModels() calls of ProfileManager in flight at once
MaxFetches == 2

(***************************************************************************)
(* Text constants of the source.                                           *)
(***************************************************************************)
DataPrefix == <<"d", "a", "t", "a", ":", " ">>
DataPrefixLen == 6
BlockSeparator == <<"\n", "\n">>
DoneSentinel == <<"[", "D", "O", "N", "E", "]">>
UndefinedText == <<"u", "n", "d", "e", "f", "i", "n", "e", "d">>
OllamaText == <<"o", "l", "l", "a", "m", "a">>
ApiGenerateText == <<"/", "a", "p", "i", "/", "g", "e", "n", "e", "r", "a", "t", "e">>

(***************************************************************************)
(* JavaScript string primitives on character sequences.                    *)
(***************************************************************************)
Min(a, b) == IF a <= b THEN a ELSE b

\* s.startsWith(p)
StartsWith(s, p) == Len(s) >= Len(p) /\ SubSeq(s, 1, Len(p)) = p

\* s.endsWith(p)
EndsWith(s, p) == Len(s) >= Len(p) /\ SubSeq(s, Len(s) - Len(p) + 1, Len(s)) = p

\* s.substring(n), n counted from 0
Substring(s, n) == SubSeq(s, n + 1, Len(s))

\* 1-based position of the first occurrence of p in s at or after from, 0 if none
IndexOfFrom(s, p, from) ==
  LET hits == {i \in from..(Len(s) - Len(p) + 1) : SubSeq(s, i, i + Len(p) - 1) = p}
  IN  IF hits = {} THEN 0 ELSE CHOOSE i \in hits : \A j \in hits : i <= j

\* s.includes(p)
Includes(s, p) == IndexOfFrom(s, p, 1) # 0

\* s.split(sep) for a non-empty separator
RECURSIVE Split(_, _)
Split(s, sep) ==
  LET i == IndexOfFrom(s, sep, 1)
  IN  IF i = 0 THEN <<s>>
      ELSE <<SubSeq(s, 1, i - 1)>> \o Split(SubSeq(s, i + Len(sep), Len(s)), sep)

\* parts.join(sep)
RECURSIVE Join(_, _)
Join(parts, sep) ==
  IF Len(parts) = 0 THEN <<>>
  ELSE IF Len(parts) = 1 THEN parts[1]
  ELSE parts[1] \o sep \o Join(Tail(parts), sep)

\* concatenation of a sequence of texts
RECURSIVE Concat(_)
Concat(parts) == IF parts = <<>> THEN <<>> ELSE Head(parts) \o Concat(Tail(parts))

WhiteSpace == {" ", "\n", "\t", "\r"}

\* s.trim()
RECURSIVE TrimStart(_)
TrimStart(s) == IF s # <<>> /\ Head(s) \in WhiteSpace THEN TrimStart(Tail(s)) ELSE s
RECURSIVE TrimEnd(_)
TrimEnd(s) ==
  IF s # <<>> /\ s[Len(s)] \in WhiteSpace THEN TrimEnd(SubSeq(s, 1, Len(s) - 1)) ELSE s
Trim(s) == TrimEnd(TrimStart(s))

UpperLetters == <<"A", "B", "C", "D", "E", "F", "G", "H", "I", "J", "K", "L", "M",
                  "N", "O", "P", "Q", "R", "S", "T", "U", "V", "W", "X", "Y", "Z">>
LowerLetters == <<"a", "b", "c", "d", "e", "f", "g", "h", "i", "j", "k", "l", "m",
                  "n", "o", "p", "q", "r", "s", "t", "u", "v", "w", "x", "y", "z">>

\* s.toLowerCase()
ToLowerCase(s) ==
  [i \in 1..Len(s) |->
     IF \E k \in 1..26 : UpperLetters[k] = s[i]
     THEN LowerLetters[CHOOSE k \in 1..26 : UpperLetters[k] = s[i]]
     ELSE s[i]]

(***************************************************************************)
(* JavaScript values handed to the callbacks: a string or undefined.       *)
(***************************************************************************)
JsString(s) == [t |-> "string", v |-> s]
JsUndefined == [t |-> "undefined", v |-> <<>>]

\* String(x), the conversion applied by + and by JSON.parse
ToText(x) == IF x.t = "undefined" THEN UndefinedText ELSE x.v

(***************************************************************************)
(* sanitizeMarkdown (Chat.tsx): table repair, then code-fence repair.      *)
(***************************************************************************)
Pipe == <<"|">>
Dashes == <<"-", "-", "-">>
\* the backquote character (the lexer of TLA+ has no string for it)
BackQuote == "bq"
Fence == <<BackQuote, BackQuote, BackQuote>>
DividerCell == <<" ", "-", "-", "-", " ", "|">>
NewLine == <<"\n">>

\* s.repeat(n)
RECURSIVE Repeat(_, _)
Repeat(s, n) == IF n <= 0 THEN <<>> ELSE s \o Repeat(s, n - 1)

\* lines.splice(at, 0, item), at counted from 0
SpliceIn(lines, at, item) ==
  SubSeq(lines, 1, Min(at, Len(lines))) \o <<item>> \o SubSeq(lines, Min(at, Len(lines)) + 1, Len(lines))

\* line.startsWith('|') && line.endsWith('|')
IsTableRow(line) == StartsWith(line, Pipe) /\ EndsWith(line, Pipe)

\* line.replace(/[^\-|]/g, '') === line
IsDividerRow(line) == \A k \in 1..Len(line) : line[k] \in {"-", "|"}

\* '|' + ' --- |'.repeat(headerCells > 0 ? headerCells : 1)
MakeDivider(header) ==
  LET headerCells == Len(Split(header, Pipe)) - 2
  IN  Pipe \o Repeat(DividerCell, IF headerCells > 0 THEN headerCells ELSE 1)

\* the for loop over the lines; i and tableStartIndex are counted from 0 as in the code
RECURSIVE TableLoop(_)
TableLoop(st) ==
  IF ~(st.i < Len(st.lines)) THEN st
  ELSE
    LET line == Trim(st.lines[st.i + 1])
    IN  IF IsTableRow(line)
        THEN LET start == IF ~st.inTable THEN st.i ELSE st.tableStartIndex
                 header == IF st.i = start THEN TRUE ELSE st.hasHeader
                 divider == IF st.i = start + 1 /\ IsDividerRow(line) THEN TRUE ELSE st.hasDivider
             IN  TableLoop([st EXCEPT !.inTable = TRUE, !.tableStartIndex = start,
                                      !.hasHeader = header, !.hasDivider = divider,
                                      !.i = st.i + 1])
        ELSE IF st.inTable /\ line = <<>>
        THEN IF st.hasHeader /\ ~st.hasDivider
             THEN TableLoop([st EXCEPT
                    !.lines = SpliceIn(st.lines, st.tableStartIndex + 1,
                                       MakeDivider(st.lines[st.tableStartIndex + 1])),
                    !.inTable = FALSE, !.hasHeader = FALSE, !.hasDivider = FALSE,
                    !.i = st.i + 2])
             ELSE TableLoop([st EXCEPT !.inTable = FALSE, !.hasHeader = FALSE,
                                       !.hasDivider = FALSE, !.i = st.i + 1])
        ELSE TableLoop([st EXCEPT !.i = st.i + 1])

\* step 1 of sanitizeMarkdown: the table repair
FixTables(content) ==
  IF ~(Includes(content, Pipe) /\ Includes(content, Dashes)) THEN content
  ELSE
    LET st == TableLoop([lines |-> Split(content, NewLine), i |-> 0, inTable |-> FALSE,
                         tableStartIndex |-> -1, hasHeader |-> FALSE, hasDivider |-> FALSE])
        lines == IF st.inTable /\ st.hasHeader /\ ~st.hasDivider
                 THEN SpliceIn(st.lines, st.tableStartIndex + 1,
                               MakeDivider(st.lines[st.tableStartIndex + 1]))
                 ELSE st.lines
    IN  Join(lines, NewLine)

\* step 2: content.replace(codeBlockRegex, ...).  After the
\* opening fence the greedy group takes the rest of the line, the lazy group
\* takes the newline alone, and the closing group matches only a fence that
\* follows that newline directly; a match without closing group gets a fence
\* appended, and matching resumes after the match.
RECURSIVE FixFences(_)
FixFences(content) ==
  LET open == IndexOfFrom(content, Fence, 1)
  IN  IF open = 0 THEN content
      ELSE
        LET rest == SubSeq(content, open + 3, Len(content))
            nl == IndexOfFrom(rest, NewLine, 1)
            lang == IF nl = 0 THEN rest ELSE SubSeq(rest, 1, nl - 1)
            code == IF nl = 0 THEN <<>> ELSE NewLine
            afterCode == SubSeq(rest, Len(lang) + Len(code) + 1, Len(rest))
            end == nl # 0 /\ StartsWith(afterCode, Fence)
            matched == Fence \o lang \o code \o (IF end THEN Fence ELSE <<>>)
            remainder == IF end THEN Substring(afterCode, 3) ELSE afterCode
        IN  SubSeq(content, 1, open - 1)
              \o (IF end THEN matched ELSE Fence \o lang \o code \o Fence)
              \o FixFences(remainder)

sanitizeMarkdown(content) ==
  IF content = <<>> THEN <<>> ELSE FixFences(FixTables(content))

(***************************************************************************)
(* handleSendMessage (Chat.tsx): the message content sent for an input.    *)
(* markdownEnabled keeps its initial value true; its toggle is outside the *)
(* streaming pipeline.                                                     *)
(***************************************************************************)
MarkdownWord ==
  <<"m", "a", "r", "k", "d", "o", "w", "n">>
FormatWord ==
  <<"f", "o", "r", "m", "a", "t">>
GemmaWord ==
  <<"g", "e", "m", "m", "a">>
LlamaWord ==
  <<"l", "l", "a", "m", "a">>
CodeWord ==
  <<"c", "o", "d", "e">>
StarcoderWord ==
  <<"s", "t", "a", "r", "c", "o", "d", "e", "r">>
CodeModelHint ==
  <<"\n", "\n", "P", "l", "e", "a", "s", "e", " ", "f", "o", "r", "m", "a", "t", " ",
    "y", "o", "u", "r", " ", "r", "e", "s", "p", "o", "n", "s", "e", " ", "u", "s",
    "i", "n", "g", " ", "M", "a", "r", "k", "d", "o", "w", "n", " ", "w", "i", "t",
    "h", " ", "p", "r", "o", "p", "e", "r", " ", "c", "o", "d", "e", " ", "b", "l",
    "o", "c", "k", "s", " ", "i", "n", "c", "l", "u", "d", "i", "n", "g", " ", "l",
    "a", "n", "g", "u", "a", "g", "e", " ", "i", "d", "e", "n", "t", "i", "f", "i",
    "e", "r", "s", " ", "f", "o", "r", " ", "s", "y", "n", "t", "a", "x", " ", "h",
    "i", "g", "h", "l", "i", "g", "h", "t", "i", "n", "g", ".">>
ChatModelHint ==
  <<"\n", "\n", "P", "l", "e", "a", "s", "e", " ", "f", "o", "r", "m", "a", "t", " ",
    "y", "o", "u", "r", " ", "r", "e", "s", "p", "o", "n", "s", "e", " ", "u", "s",
    "i", "n", "g", " ", "M", "a", "r", "k", "d", "o", "w", "n", " ", "w", "i", "t",
    "h", " ", "p", "r", "o", "p", "e", "r", " ", "h", "e", "a", "d", "i", "n", "g",
    "s", ",", " ", "l", "i", "s", "t", "s", ",", " ", "a", "n", "d", " ", "c", "o",
    "d", "e", " ", "b", "l", "o", "c", "k", "s", " ", "w", "i", "t", "h", " ", "s",
    "y", "n", "t", "a", "x", " ", "h", "i", "g", "h", "l", "i", "g", "h", "t", "i",
    "n", "g", " ", "w", "h", "e", "r", "e", " ", "a", "p", "p", "r", "o", "p", "r",
    "i", "a", "t", "e", ".">>
GenericHint ==
  <<"\n", "\n", "P", "l", "e", "a", "s", "e", " ", "u", "s", "e", " ", "M", "a", "r",
    "k", "d", "o", "w", "n", " ", "f", "o", "r", "m", "a", "t", "t", "i", "n", "g",
    " ", "i", "n", " ", "y", "o", "u", "r", " ", "r", "e", "s", "p", "o", "n", "s",
    "e", ".">>

markdownEnabled == TRUE

MessageContent(input, model_name) ==
  LET messageContent == Trim(input)
      name == ToLowerCase(model_name)
      isGemma == Includes(name, GemmaWord)
      isLlama == Includes(name, LlamaWord)
      isCodeModel == Includes(name, CodeWord) \/ Includes(name, StarcoderWord)
  IN  IF markdownEnabled
         /\ ~Includes(ToLowerCase(messageContent), MarkdownWord)
         /\ ~Includes(ToLowerCase(messageContent), FormatWord)
      THEN IF isCodeModel THEN messageContent \o CodeModelHint
           ELSE IF isGemma \/ isLlama THEN messageContent \o ChatModelHint
           ELSE messageContent \o GenericHint
      ELSE messageContent

(***************************************************************************)
(* The stream reader of sendMessage (api.ts, readStream) and the fragment  *)
(* callback onChunk (Chat.tsx).                                            *)
(***************************************************************************)
\* chunk.split('\n\n')
ChunkLines(chunk) == Split(chunk, BlockSeparator)

\* line.startsWith('data: ') and the payload line.substring(6) is not empty
IsDataLine(line) == StartsWith(line, DataPrefix) /\ Substring(line, DataPrefixLen) # <<>>

\* the payloads readStream hands to options.onChunk for one transport read, in order
RECURSIVE DataOfLines(_)
DataOfLines(lines) ==
  IF lines = <<>> THEN <<>>
  ELSE (IF IsDataLine(Head(lines)) THEN <<Substring(Head(lines), DataPrefixLen)>> ELSE <<>>)
         \o DataOfLines(Tail(lines))

\* the reader without the test of the data prefix: every block is cut at
\* position 6 and handed on when the rest is not empty
RECURSIVE RestOfLines(_)
RestOfLines(lines) ==
  IF lines = <<>> THEN <<>>
  ELSE (IF Substring(Head(lines), DataPrefixLen) # <<>>
        THEN <<Substring(Head(lines), DataPrefixLen)>> ELSE <<>>)
         \o RestOfLines(Tail(lines))
ChunkDataUnfiltered(chunk) == RestOfLines(ChunkLines(chunk))
ChunkData(chunk) == DataOfLines(ChunkLines(chunk))

\* event.data in onChunk: readStream passes the payload string itself, and the
\* property data of a string is undefined
EventData(chunk) == IF chunk.t = "event" THEN chunk.data ELSE JsUndefined

Digits == {"0", "1", "2", "3", "4", "5", "6", "7", "8", "9"}

\* JSON.parse(text) on the texts of the model: a string literal without escapes
\* decodes to its inside, a number to its digits, anything else throws
JsonParse(text) ==
  IF Len(text) >= 2 /\ text[1] = "\"" /\ text[Len(text)] = "\""
     /\ \A k \in 2..(Len(text) - 1) : text[k] \notin {"\"", "\\"}
  THEN [ok |-> TRUE, v |-> SubSeq(text, 2, Len(text) - 1)]
  ELSE IF text # <<>> /\ (\A k \in 1..Len(text) : text[k] \in Digits)
          /\ (Len(text) = 1 \/ text[1] # "0")
  THEN [ok |-> TRUE, v |-> text]
  ELSE [ok |-> FALSE, v |-> <<>>]

\* onChunk applied to the component state st = [draft, isTyping, refetch]
OnChunk(st, chunk) ==
  LET data == EventData(chunk)
  IN  IF data = JsString(DoneSentinel)
      THEN [st EXCEPT !.isTyping = FALSE, !.refetch = TRUE]
      ELSE LET parsedData == JsonParse(ToText(data))
           IN  IF parsedData.ok
               THEN [st EXCEPT !.draft = @ \o parsedData.v]
               ELSE [st EXCEPT !.draft = @ \o ToText(data)]

\* the for loop of readStream over the lines of one read
RECURSIVE DeliverAll(_, _)
DeliverAll(st, datas) ==
  IF datas = <<>> THEN st
  ELSE DeliverAll(OnChunk(st, JsString(Head(datas))), Tail(datas))

(***************************************************************************)
(* Profiles and the streaming decision of mutationFn.                      *)
(***************************************************************************)
UrlGenerate ==
  <<"h", "/", "a", "p", "i", "/", "g", "e", "n", "e", "r", "a", "t", "e">>
UrlChat ==
  <<"h", "/", "a", "p", "i", "/", "c", "h", "a", "t">>
UrlOther ==
  <<"h", "/", "v", "1">>
ModelName == <<"m">>

Profiles ==
  { [provider |-> "ollama", url |-> UrlGenerate, model_name |-> ModelName],
    [provider |-> "ollama", url |-> UrlChat, model_name |-> ModelName],
    [provider |-> "openai", url |-> UrlOther, model_name |-> ModelName] }

\* isOllamaApi of mutationFn
IsOllamaApi(p) ==
  Includes(ToLowerCase(p.url), OllamaText) \/ EndsWith(p.url, ApiGenerateText)

\* supportsStreaming (utils/providers.ts)
supportsStreaming(provider, url) ==
  IF provider = "ollama" THEN TRUE
  ELSE IF Includes(url, OllamaText) \/ EndsWith(url, ApiGenerateText) THEN TRUE
  ELSE FALSE

(***************************************************************************)
(* Inputs: the texts typed, the response bodies and the way the transport  *)
(* cuts a body into reads (reader.read() returns whatever bytes arrived).  *)
(***************************************************************************)
Inputs == {<<"h", "i">>, <<" ">>}

\* block-aligned reads: a block without the data prefix, a data block, the
\* sentinel block and one more data block after it
TransportSentinel ==
  << <<"i", "d", ":", " ", "7", "\n", "\n", "d", "a", "t", "a", ":", " ", "\"", "a", "\"", "\n", "\n">>,
     <<"d", "a", "t", "a", ":", " ", "[", "D", "O", "N", "E", "]", "\n", "\n", "d", "a", "t", "a", ":", " ", "\"", "b", "\"", "\n", "\n">> >>

\* two data blocks, the first one cut inside its payload by the read boundary
TransportCut ==
  << <<"d", "a", "t", "a", ":", " ", "\"", "H", "e">>,
     <<"l", "\"", "\n", "\n", "d", "a", "t", "a", ":", " ", "l", "o", "\n", "\n">> >>

Transports == {TransportSentinel, TransportCut}

\* framed blocks: a JSON payload, a raw payload, a block of another field, a
\* data block with an empty payload and the sentinel block
BlockJson == <<"d", "a", "t", "a", ":", " ", "\"", "a", "\"">>
BlockRaw == <<"d", "a", "t", "a", ":", " ", "l", "o">>
BlockOther == <<"e", "v", "e", "n", "t", ":", " ", "m">>
BlockEmpty == <<"d", "a", "t", "a", ":", " ">>
BlockDone == <<"d", "a", "t", "a", ":", " ", "[", "D", "O", "N", "E", "]">>
Blocks == {BlockJson, BlockRaw, BlockOther, BlockEmpty, BlockDone}

\* the bodies of up to MaxBlocks framed blocks, each block followed by the
\* separator, delivered one block per read or all in one read
BlockSeqs == UNION {[1..n -> Blocks] : n \in 1..MaxBlocks}
PerBlock(bs) == [i \in 1..Len(bs) |-> bs[i] \o BlockSeparator]
OneRead(bs) == << Concat(PerBlock(bs)) >>
FramedTransports == {PerBlock(bs) : bs \in BlockSeqs} \cup {OneRead(bs) : bs \in BlockSeqs}

\* the response body a transport delivers
BodyOf(transport) == Concat(transport)

\* a fragment as the decoder contract defines it: the JSON-decoded payload, or
\* the raw payload when it is not JSON
FragmentText(data) ==
  LET parsed == JsonParse(data) IN IF parsed.ok THEN parsed.v ELSE data

RECURSIVE FragmentTexts(_)
FragmentTexts(datas) ==
  IF datas = <<>> THEN <<>> ELSE <<FragmentText(Head(datas))>> \o FragmentTexts(Tail(datas))

\* the payloads of the data-prefixed blocks of a body, in order
RECURSIVE BlockPayloads(_)
BlockPayloads(blocks) ==
  IF blocks = <<>> THEN <<>>
  ELSE (IF StartsWith(Head(blocks), DataPrefix)
        THEN <<Substring(Head(blocks), DataPrefixLen)>> ELSE <<>>)
         \o BlockPayloads(Tail(blocks))

\* the payloads that are not empty
RECURSIVE NonEmpty(_)
NonEmpty(datas) ==
  IF datas = <<>> THEN <<>>
  ELSE (IF Head(datas) # <<>> THEN <<Head(datas)>> ELSE <<>>) \o NonEmpty(Tail(datas))

\* the payloads before the first sentinel
RECURSIVE BeforeSentinel(_)
BeforeSentinel(datas) ==
  IF datas = <<>> \/ Head(datas) = DoneSentinel THEN <<>>
  ELSE <<Head(datas)>> \o BeforeSentinel(Tail(datas))

\* the answer text the backend stores for a submission (the backend is not
\* part of the sources; the text stands for whatever the model generated)
StoredAnswer == <<"o", "k">>

\* the messages of the chat when it is opened: a new chat
InitialStore == <<>>

(***************************************************************************)
(* State of the Chat component, of the requests in flight and of the store.*)
(***************************************************************************)
VARIABLES
  profile,           \* the profile prop of Chat
  streamingEnabled,  \* useState(true)
  isTyping,          \* useState(false)
  streamingMessage,  \* useState(''): the live draft
  localMessages,     \* useState([]): the displayed view
  messages,          \* data of the messages query
  loaded,            \* the first fetch of the messages query has resolved
  refetchPending,    \* a fetch of the messages query is in flight
  mutation,          \* status and error of sendMessageMutation
  subs,              \* one record per submission: its request, stream, closure
                     \* and history (delivered, completions, errors, cancel)
  persisted,         \* the message list of the backend store
  cancelPolling,     \* an interval set up by handleStopStreaming is running
  draftOwners,       \* history: the submissions whose fragments are in the draft
  chatId,            \* useParams(): the chat the route shows
  formData,          \* ProfileManager: useState of the profile form
  installedOllamaModels,  \* ProfileManager: useState([])
  isLoadingModels,   \* ProfileManager: useState(false)
  modelError,        \* ProfileManager: useState(null), here whether it is set
  modelRequests,     \* ProfileManager: the getOllamaModels() calls in flight
  createProfileMutation   \* ProfileManager: status of createProfileMutation

vars ==
  << profile, streamingEnabled, isTyping, streamingMessage, localMessages, messages,
     loaded, refetchPending, mutation, subs, persisted, cancelPolling, draftOwners,
     chatId, formData, installedOllamaModels, isLoadingModels, modelError,
     modelRequests, createProfileMutation >>

\* the state of ProfileManager, which the actions of Chat leave alone
managerVars ==
  << formData, installedOllamaModels, isLoadingModels, modelError, modelRequests,
     createProfileMutation >>

\* the chats of the history sidebar; the route opens the first
InitialChat == "A"
Chats == {"A", "B"}

\* providers.ts: the providers of the form, their default model and the
\* popular models of ollama (two of the ten); the discovery endpoint reports
\* a list of installed models
Providers == {"ollama", "openai", "anthropic", "custom"}
getDefaultModel(provider) ==
  CASE provider = "ollama" -> "llama3.2"
    [] provider = "openai" -> "gpt-3.5-turbo"
    [] provider = "anthropic" -> "claude-3-opus-20240229"
    [] OTHER -> ""
PopularModels == {"llama3.2", "mistral"}
InstalledLists == {<<>>, <<"qwen">>, <<"qwen", "mistral">>}

\* resetForm() and the initial useState of formData
DefaultForm == [provider |-> "ollama", model_name |-> getDefaultModel("ollama")]

\* ProfileManager after its first render: the effect on [formData.provider]
\* has called fetchOllamaModels()
ManagerInit ==
  /\ formData = DefaultForm
  /\ installedOllamaModels = <<>>
  /\ isLoadingModels = TRUE
  /\ modelError = FALSE
  /\ modelRequests = 1
  /\ createProfileMutation = "idle"

Init ==
  /\ profile \in Profiles
  /\ streamingEnabled = TRUE
  /\ isTyping = FALSE
  /\ streamingMessage = <<>>
  /\ localMessages = <<>>
  /\ messages = <<>>
  /\ loaded = FALSE
  /\ refetchPending = TRUE
  /\ mutation = [status |-> "idle", error |-> "none"]
  /\ subs = <<>>
  /\ persisted = InitialStore
  /\ cancelPolling = FALSE
  /\ draftOwners = {}
  /\ chatId = InitialChat
  /\ ManagerInit

UserMessage(k, content, src) ==
  [role |-> "user", content |-> content, src |-> src, sub |-> k]
AssistantMessage(k, content, src) ==
  [role |-> "assistant", content |-> content, src |-> src, sub |-> k]

\* the streams whose reader is being read
Reading == {k \in 1..Len(subs) : subs[k].kind = "stream" /\ subs[k].phase = "reading"}

(***************************************************************************)
(* The messages query: a fetch resolves with the list of the store.  The   *)
(* query keeps the old data reference when the new list is equal, so the   *)
(* effect on [messages] runs only for a changed list; it replaces the      *)
(* local view when the list is not empty.                                  *)
(***************************************************************************)
MessagesEffect(data, local) == IF Len(data) > 0 THEN data ELSE local

\* getMessages(chatId): the messages the store holds for a chat (a message
\* belongs to the chat its submission was posted to)
ChatOf(m) == subs[m.sub].chat
StoreOf(chat) == SelectSeq(persisted, LAMBDA m : ChatOf(m) = chat)

QueryResolve ==
  /\ UNCHANGED << chatId, managerVars >>
  /\ refetchPending
  /\ refetchPending' = FALSE
  /\ loaded' = TRUE
  /\ messages' = StoreOf(chatId)
  /\ localMessages' = IF StoreOf(chatId) # messages
                      THEN MessagesEffect(StoreOf(chatId), localMessages)
                      ELSE localMessages
  /\ UNCHANGED << profile, streamingEnabled, isTyping, streamingMessage, mutation, subs,
                  persisted, cancelPolling, draftOwners >>

\* the Refresh button and the R key: refetchMessages()
RefreshClick ==
  /\ UNCHANGED << chatId, managerVars >>
  /\ loaded
  /\ ~refetchPending
  /\ refetchPending' = TRUE
  /\ UNCHANGED << profile, streamingEnabled, isTyping, streamingMessage, localMessages,
                  messages, loaded, mutation, subs, persisted, cancelPolling, draftOwners >>

\* refetchInterval of the query and the setInterval effect: both refetch while isTyping
PollTick ==
  /\ UNCHANGED << chatId, managerVars >>
  /\ loaded
  /\ isTyping
  /\ ~refetchPending
  /\ refetchPending' = TRUE
  /\ UNCHANGED << profile, streamingEnabled, isTyping, streamingMessage, localMessages,
                  messages, loaded, mutation, subs, persisted, cancelPolling, draftOwners >>

\* the interval of handleStopStreaming: refetchMessages() every 1000 ms
CancelPollTick ==
  /\ UNCHANGED << chatId, managerVars >>
  /\ cancelPolling
  /\ ~refetchPending
  /\ refetchPending' = TRUE
  /\ UNCHANGED << profile, streamingEnabled, isTyping, streamingMessage, localMessages,
                  messages, loaded, mutation, subs, persisted, cancelPolling, draftOwners >>

\* the timeout of handleStopStreaming: clearInterval after 5000 ms
CancelPollStop ==
  /\ UNCHANGED << chatId, managerVars >>
  /\ cancelPolling
  /\ cancelPolling' = FALSE
  /\ UNCHANGED << profile, streamingEnabled, isTyping, streamingMessage, localMessages,
                  messages, loaded, refetchPending, mutation, subs, persisted, draftOwners >>

\* the streaming toggle button and the S key
ToggleStreaming ==
  /\ UNCHANGED << chatId, managerVars >>
  /\ streamingEnabled' = ~streamingEnabled
  /\ UNCHANGED << profile, isTyping, streamingMessage, localMessages, messages, loaded,
                  refetchPending, mutation, subs, persisted, cancelPolling, draftOwners >>

(***************************************************************************)
(* handleSendMessage -> sendMessageMutation.mutate: onMutate, then         *)
(* mutationFn up to the request of sendMessage.  The input is enabled when *)
(* MessageInput is not disabled (isTyping || isPending) and the text is    *)
(* not blank.  The callbacks of the stream close over the streamingMessage *)
(* of the render the submission was made in.                               *)
(***************************************************************************)
\* a new submission drops the history of the requests and streams that have ended
\* (the store keeps what it holds; an answer not yet saved for an ended stream
\* is then not saved any more)
Forgotten(kind) ==
  [kind |-> kind, phase |-> "forgotten", content |-> <<>>, finalMessage |-> <<>>,
   transport |-> <<>>, next |-> 1, delivered |-> <<>>, completions |-> 0, errors |-> 0,
   cancel |-> <<>>, chat |-> InitialChat, failure |-> "none"]
Forget(ss) ==
  [k \in 1..Len(ss) |->
     IF ss[k].phase \in {"requesting", "reading"}
     THEN ss[k]
     ELSE [Forgotten(ss[k].kind) EXCEPT !.chat = ss[k].chat]]

\* setLocalMessages(prev => [...prev, userMessage]); the variant drops the
\* entries shown before (setLocalMessages([userMessage]))
OptimisticReplace(prev, userMessage) == << userMessage >>
OptimisticAppend(prev, userMessage) == Append(prev, userMessage)

InputDisabled == isTyping \/ mutation.status = "pending"

UseStreaming == streamingEnabled /\ IsOllamaApi(profile)

Submit(input) ==
  /\ UNCHANGED << chatId, managerVars >>
  /\ loaded
  /\ ~InputDisabled
  /\ Trim(input) # <<>>
  /\ Len(subs) < MaxSubmits
  /\ LET k == Len(subs) + 1
         content == MessageContent(input, profile.model_name)
     IN  /\ isTyping' = TRUE
         /\ mutation' = [status |-> "pending", error |-> "none"]
         /\ localMessages' = OptimisticAppend(localMessages, UserMessage(k, content, "local"))
         /\ streamingMessage' = IF UseStreaming THEN <<>> ELSE streamingMessage
         /\ draftOwners' = IF UseStreaming THEN {} ELSE draftOwners
         /\ subs' = Append(Forget(subs),
              [kind |-> IF UseStreaming THEN "stream" ELSE "blocking",
               phase |-> "requesting",
               content |-> content,
               finalMessage |-> streamingMessage,
               transport |-> <<>>,
               next |-> 1,
               delivered |-> <<>>,
               completions |-> 0,
               errors |-> 0,
               cancel |-> <<>>,
               chat |-> chatId,
               failure |-> "none"])
  /\ UNCHANGED << profile, streamingEnabled, messages, loaded, refetchPending, persisted,
                  cancelPolling >>

\* onSuccess of the mutation, with the streamingEnabled of the current render
OnSuccess ==
  /\ mutation' = [status |-> "success", error |-> "none"]
  /\ refetchPending' = IF ~streamingEnabled THEN TRUE ELSE refetchPending
  /\ isTyping' = IF ~streamingEnabled THEN FALSE ELSE isTyping

\* sendMessage with options.streaming: the response arrives with status ok and a
\* body, readStream() starts, the placeholder is returned.  The backend has
\* stored the user message.
FetchResponse(k, transport) ==
  /\ UNCHANGED << chatId, managerVars >>
  /\ k \in 1..Len(subs)
  /\ subs[k].kind = "stream"
  /\ subs[k].phase = "requesting"
  /\ subs' = [subs EXCEPT ![k].phase = "reading", ![k].transport = transport]
  /\ persisted' = Append(persisted, UserMessage(k, subs[k].content, "server"))
  /\ OnSuccess
  /\ UNCHANGED << profile, streamingEnabled, streamingMessage, localMessages, messages,
                  loaded, cancelPolling, draftOwners >>

\* the request fails: onError of the mutation.  The failure is either a
\* response of the backend with an error status and the structured payload
\* whose code is MODEL_API_ERROR ("model_api"), or no response at all
\* ("network").  axios rejects with an AxiosError that carries the response;
\* the streaming path throws new Error(`Server error: ${status}`) without
\* reading the body ("server_status").
RequestErrors(kind) == {"model_api", "network"}

ThrownError(kind, failure) ==
  IF kind = "stream" /\ failure = "model_api" THEN "server_status" ELSE failure

\* isApiErrorCode(error, 'MODEL_API_ERROR'): an AxiosError whose
\* response.data.code is the code
isModelApiError(error) == error = "model_api"

RequestFail(k, error) ==
  /\ UNCHANGED << chatId, managerVars >>
  /\ k \in 1..Len(subs)
  /\ subs[k].phase = "requesting"
  /\ error \in RequestErrors(subs[k].kind)
  /\ subs' = [subs EXCEPT ![k].phase = "failed", ![k].failure = error]
  /\ mutation' = [status |-> "error", error |-> ThrownError(subs[k].kind, error)]
  /\ isTyping' = FALSE
  /\ UNCHANGED << profile, streamingEnabled, streamingMessage, localMessages, messages,
                  loaded, refetchPending, persisted, cancelPolling, draftOwners >>

\* sendMessage without streaming: the blocking request resolves with the finished
\* message; the backend has stored the user message and the answer.
BlockingResolve(k) ==
  /\ UNCHANGED << chatId, managerVars >>
  /\ k \in 1..Len(subs)
  /\ subs[k].kind = "blocking"
  /\ subs[k].phase = "requesting"
  /\ subs' = [subs EXCEPT ![k].phase = "resolved"]
  /\ persisted' = persisted \o << UserMessage(k, subs[k].content, "server"),
                                  AssistantMessage(k, StoredAnswer, "server") >>
  /\ OnSuccess
  /\ UNCHANGED << profile, streamingEnabled, streamingMessage, localMessages, messages,
                  loaded, cancelPolling, draftOwners >>

\* the retry button of the error display: sendMessageMutation.reset()
ResetError ==
  /\ UNCHANGED << chatId, managerVars >>
  /\ loaded
  /\ mutation.status = "error"
  /\ mutation' = [status |-> "idle", error |-> "none"]
  /\ UNCHANGED << profile, streamingEnabled, isTyping, streamingMessage, localMessages,
                  messages, loaded, refetchPending, subs, persisted, cancelPolling,
                  draftOwners >>

(***************************************************************************)
(* readStream: one reader.read() with its for loop over the lines, the end *)
(* of the body, and a failing read.                                        *)
(***************************************************************************)
\* onComplete of submission k: the accumulated text is the streamingMessage
\* its closure holds
CompletionEntry(k) ==
  IF subs[k].finalMessage # <<>> /\ Trim(subs[k].finalMessage) # <<>>
  THEN << AssistantMessage(k, sanitizeMarkdown(subs[k].finalMessage), "local") >>
  ELSE <<>>

ReadChunk(k) ==
  /\ UNCHANGED << chatId, managerVars >>
  /\ k \in Reading
  /\ subs[k].next <= Len(subs[k].transport)
  /\ LET datas == ChunkData(subs[k].transport[subs[k].next])
         st == DeliverAll([draft |-> streamingMessage, isTyping |-> isTyping,
                           refetch |-> refetchPending], datas)
     IN  /\ streamingMessage' = st.draft
         /\ isTyping' = st.isTyping
         /\ refetchPending' = st.refetch
         /\ draftOwners' = IF datas # <<>> THEN draftOwners \cup {k} ELSE draftOwners
         /\ subs' = [subs EXCEPT ![k].next = @ + 1,
                                 ![k].delivered = @ \o datas]
  /\ UNCHANGED << profile, streamingEnabled, localMessages, messages, loaded, mutation,
                  persisted, cancelPolling >>

\* reader.read() returns done: break, then finally -> onComplete
StreamEnd(k) ==
  /\ UNCHANGED << chatId, managerVars >>
  /\ k \in Reading
  /\ subs[k].next > Len(subs[k].transport)
  /\ localMessages' = localMessages \o CompletionEntry(k)
  /\ isTyping' = FALSE
  /\ refetchPending' = TRUE
  /\ subs' = [subs EXCEPT ![k].phase = "closed",
                          ![k].completions = @ + 1]
  /\ UNCHANGED << profile, streamingEnabled, streamingMessage, messages, loaded, mutation,
                  persisted, cancelPolling, draftOwners >>

\* reader.read() rejects: catch -> onError, then finally -> onComplete
ReadError(k) ==
  /\ UNCHANGED << chatId, managerVars >>
  /\ k \in Reading
  /\ subs[k].next <= Len(subs[k].transport)
  /\ localMessages' = localMessages \o CompletionEntry(k)
  /\ isTyping' = FALSE
  /\ refetchPending' = TRUE
  /\ subs' = [subs EXCEPT ![k].phase = "closed",
                          ![k].errors = @ + 1,
                          ![k].completions = @ + 1]
  /\ UNCHANGED << profile, streamingEnabled, streamingMessage, messages, loaded, mutation,
                  persisted, cancelPolling, draftOwners >>

\* the backend stores the answer of a streamed submission when the model has finished
ServerSaveAssistant(k) ==
  /\ UNCHANGED << chatId, managerVars >>
  /\ k \in 1..Len(subs)
  /\ subs[k].kind = "stream"
  /\ \/ subs[k].phase = "closed"
     \/ subs[k].phase = "reading" /\ subs[k].next > Len(subs[k].transport)
  /\ \A i \in 1..Len(persisted) : ~(persisted[i].role = "assistant" /\ persisted[i].sub = k)
  /\ persisted' = Append(persisted, AssistantMessage(k, StoredAnswer, "server"))
  /\ UNCHANGED << profile, streamingEnabled, isTyping, streamingMessage, localMessages,
                  messages, loaded, refetchPending, mutation, subs, cancelPolling,
                  draftOwners >>

(***************************************************************************)
(* handleStopStreaming, the stop button shown while isTyping.              *)
(* cancelStreamingResponse is imported from services/api, which defines no *)
(* such function: the call either throws (the handler ends there) or       *)
(* returns.  Neither outcome reaches the reader, which is local to         *)
(* sendMessage, and fetch is given no abort signal.                        *)
(***************************************************************************)
CancelEntry ==
  IF streamingMessage # <<>> /\ Trim(streamingMessage) # <<>>
  THEN << AssistantMessage(Len(subs), sanitizeMarkdown(streamingMessage), "local") >>
  ELSE <<>>

\* the requests and streams in flight when the stop button is pressed; the
\* history of a submission records its first cancel: the number of fragments
\* delivered before it, the submission the button was pressed for and the
\* entry the handler added
Active(k) == subs[k].phase \in {"requesting", "reading"}

HandleStopStreaming(thrown) ==
  /\ UNCHANGED << chatId, managerVars >>
  /\ loaded
  /\ isTyping
  /\ IF thrown
     THEN UNCHANGED << isTyping, localMessages, cancelPolling, subs >>
     ELSE /\ isTyping' = FALSE
          /\ localMessages' = localMessages \o CancelEntry
          /\ cancelPolling' = TRUE
          /\ subs' = [k \in 1..Len(subs) |->
                        IF Active(k) /\ subs[k].cancel = <<>>
                        THEN [subs[k] EXCEPT !.cancel =
                                << [at |-> Len(subs[k].delivered), target |-> Len(subs),
                                    added |-> CancelEntry] >>]
                        ELSE subs[k]]
  /\ UNCHANGED << profile, streamingEnabled, streamingMessage, messages, loaded,
                  refetchPending, mutation, persisted, draftOwners >>

(***************************************************************************)
(* handleSelectChat: navigate(`/chat/${selectedChatId}`).  The route keeps *)
(* the Chat element, so its state stays; the queries get a new key, the    *)
(* messages query has no data for it (the chat is opened for the first     *)
(* time: only the chat of the first route has been fetched) and fetches.   *)
(***************************************************************************)
handleSelectChat(selectedChatId) ==
  /\ loaded
  /\ chatId = InitialChat
  /\ selectedChatId \in Chats \ {chatId}
  /\ chatId' = selectedChatId
  /\ messages' = <<>>
  /\ loaded' = FALSE
  /\ refetchPending' = TRUE
  /\ UNCHANGED << profile, streamingEnabled, isTyping, streamingMessage, localMessages,
                  mutation, subs, persisted, cancelPolling, draftOwners, managerVars >>

(***************************************************************************)
(* ProfileManager: the discovery of the installed models and the form.     *)
(***************************************************************************)
chatVars ==
  << profile, streamingEnabled, isTyping, streamingMessage, localMessages, messages,
     loaded, refetchPending, mutation, subs, persisted, cancelPolling, draftOwners,
     chatId >>

\* fetchOllamaModels up to its await
StartModelFetch ==
  /\ modelRequests < MaxFetches
  /\ isLoadingModels' = TRUE
  /\ modelError' = FALSE
  /\ modelRequests' = modelRequests + 1

\* handleInputChange for the provider select, then the effect on
\* [formData.provider]
handleProviderChange(providerType) ==
  /\ providerType \in Providers \ {formData.provider}
  /\ formData' = [provider |-> providerType, model_name |-> getDefaultModel(providerType)]
  /\ IF providerType = "ollama"
     THEN StartModelFetch
     ELSE UNCHANGED << isLoadingModels, modelError, modelRequests >>
  /\ UNCHANGED << installedOllamaModels, createProfileMutation, chatVars >>

\* the refresh button next to the model select, disabled while isLoadingModels
RefreshModels ==
  /\ formData.provider = "ollama"
  /\ ~isLoadingModels
  /\ StartModelFetch
  /\ UNCHANGED << formData, installedOllamaModels, createProfileMutation, chatVars >>

\* the options of the model select: the installed group when the list is not
\* empty, and the popular group
InstalledNames == {installedOllamaModels[i] : i \in 1..Len(installedOllamaModels)}
ModelOptions == InstalledNames \cup PopularModels

\* handleInputChange for the model select
handleModelChange(model) ==
  /\ formData.provider = "ollama"
  /\ model \in ModelOptions
  /\ formData' = [formData EXCEPT !.model_name = model]
  /\ UNCHANGED << installedOllamaModels, isLoadingModels, modelError, modelRequests,
                  createProfileMutation, chatVars >>

\* getOllamaModels() resolves: try, then finally
ModelsResolve(models) ==
  /\ modelRequests > 0
  /\ modelRequests' = modelRequests - 1
  /\ installedOllamaModels' = models
  /\ isLoadingModels' = FALSE
  /\ UNCHANGED << formData, modelError, createProfileMutation, chatVars >>

\* getOllamaModels() rejects: catch, then finally; the variant leaves the
\* list as it was
ModelsFailKeepList ==
  /\ modelRequests > 0
  /\ modelRequests' = modelRequests - 1
  /\ modelError' = TRUE
  /\ isLoadingModels' = FALSE
  /\ UNCHANGED << formData, installedOllamaModels, createProfileMutation, chatVars >>
ModelsFail ==
  /\ modelRequests > 0
  /\ modelRequests' = modelRequests - 1
  /\ modelError' = TRUE
  /\ installedOllamaModels' = <<>>
  /\ isLoadingModels' = FALSE
  /\ UNCHANGED << formData, createProfileMutation, chatVars >>

\* the submit button: disabled while a save is pending; the model field is
\* required
SubmitEnabled == createProfileMutation # "pending"

handleSubmit ==
  /\ SubmitEnabled
  /\ formData.model_name # ""
  /\ createProfileMutation' = "pending"
  /\ UNCHANGED << formData, installedOllamaModels, isLoadingModels, modelError,
                  modelRequests, chatVars >>

\* onSuccess of createProfileMutation: resetForm(), then the effect when the
\* provider changed
ProfileCreated ==
  /\ createProfileMutation = "pending"
  /\ createProfileMutation' = "success"
  /\ formData' = DefaultForm
  /\ IF formData.provider # "ollama"
     THEN StartModelFetch
     ELSE UNCHANGED << isLoadingModels, modelError, modelRequests >>
  /\ UNCHANGED << installedOllamaModels, chatVars >>

ProfileCreateFail ==
  /\ createProfileMutation = "pending"
  /\ createProfileMutation' = "error"
  /\ UNCHANGED << formData, installedOllamaModels, isLoadingModels, modelError,
                  modelRequests, chatVars >>

(***************************************************************************)
(* Chat with one chat open.  The switch to another chat and ProfileManager *)
(* (mounted on another route) have their own specifications below.         *)
(***************************************************************************)
Next ==
  \/ QueryResolve
  \/ PollTick
  \/ CancelPollTick
  \/ CancelPollStop
  \/ RefreshClick
  \/ ToggleStreaming
  \/ \E input \in Inputs : Submit(input)
  \/ \E k \in 1..MaxSubmits, transport \in Transports : FetchResponse(k, transport)
  \/ \E k \in 1..MaxSubmits, error \in {"model_api", "network"} : RequestFail(k, error)
  \/ \E k \in 1..MaxSubmits : BlockingResolve(k)
  \/ ResetError
  \/ \E k \in 1..MaxSubmits : ReadChunk(k)
  \/ \E k \in 1..MaxSubmits : StreamEnd(k)
  \/ \E k \in 1..MaxSubmits : ReadError(k)
  \/ \E k \in 1..MaxSubmits : ServerSaveAssistant(k)
  \/ \E thrown \in BOOLEAN : HandleStopStreaming(thrown)

Spec == Init /\ [][Next]_vars

(***************************************************************************)
(* The stream reader on its own: one streamed submission whose body is a   *)
(* sequence of framed blocks, each read carrying whole blocks.             *)
(***************************************************************************)
InitDecoder == Init /\ IsOllamaApi(profile)

NextDecoder ==
  \/ QueryResolve
  \/ \E input \in Inputs : subs = <<>> /\ Submit(input)
  \/ \E k \in 1..MaxSubmits, transport \in FramedTransports : FetchResponse(k, transport)
  \/ \E k \in 1..MaxSubmits : ReadChunk(k)
  \/ \E k \in 1..MaxSubmits : StreamEnd(k)
  \/ \E k \in 1..MaxSubmits : ReadError(k)

SpecDecoder == InitDecoder /\ [][NextDecoder]_vars

(***************************************************************************)
(* The sanitizer on its own: the draft holds any text made of up to        *)
(* MaxPieces pieces while a stream is shown as typing, and the stop button *)
(* commits the draft through sanitizeMarkdown (the renderer applies        *)
(* sanitizeMarkdown to the committed entry once more).                     *)
(***************************************************************************)
HeaderRow == <<"|", " ", "A", " ", "|", " ", "B", " ", "|">>
Letter == <<"x">>
SeparatorRow == <<"|", " ", "-", "-", "-", " ", "|", " ", "-", "-", "-", " ", "|">>
Pieces == {Fence, NewLine, HeaderRow, SeparatorRow, Dashes, Letter}
Texts == {Concat(ps) : ps \in UNION {[1..n -> Pieces] : n \in 0..MaxPieces}}

InitSanitizer ==
  /\ profile \in {p \in Profiles : IsOllamaApi(p)}
  /\ streamingEnabled = TRUE
  /\ isTyping = TRUE
  /\ streamingMessage \in Texts
  /\ localMessages = <<>>
  /\ messages = <<>>
  /\ loaded = TRUE
  /\ refetchPending = FALSE
  /\ mutation = [status |-> "success", error |-> "none"]
  /\ subs = <<>>
  /\ persisted = InitialStore
  /\ cancelPolling = FALSE
  /\ draftOwners = {}
  /\ chatId = InitialChat
  /\ ManagerInit

NextSanitizer ==
  \/ \E thrown \in BOOLEAN : HandleStopStreaming(thrown)
  \/ CancelPollStop

SpecSanitizer == InitSanitizer /\ [][NextSanitizer]_vars

(***************************************************************************)
(* The send path on its own: submissions in both modes with the streaming  *)
(* toggle, their requests (resolving or failing) and their streams read to *)
(* the end, without the stop button, the timers, the refresh button, read  *)
(* failures and the store's later save.                                    *)
(***************************************************************************)
NextSend ==
  \/ QueryResolve
  \/ ToggleStreaming
  \/ \E input \in Inputs : Submit(input)
  \/ \E k \in 1..MaxSubmits, transport \in Transports : FetchResponse(k, transport)
  \/ \E k \in 1..MaxSubmits, error \in {"model_api", "network"} : RequestFail(k, error)
  \/ \E k \in 1..MaxSubmits : BlockingResolve(k)
  \/ \E k \in 1..MaxSubmits : ReadChunk(k)
  \/ \E k \in 1..MaxSubmits : StreamEnd(k)

SpecSend == Init /\ [][NextSend]_vars

(***************************************************************************)
(* Chat switching on its own: streamed submissions read to the end, and    *)
(* the history sidebar opening the other chat.                             *)
(***************************************************************************)
NextSwitch ==
  \/ QueryResolve
  \/ \E input \in Inputs : Submit(input)
  \/ \E k \in 1..MaxSubmits, transport \in Transports : FetchResponse(k, transport)
  \/ \E k \in 1..MaxSubmits : ReadChunk(k)
  \/ \E k \in 1..MaxSubmits : StreamEnd(k)
  \/ \E selectedChatId \in Chats : handleSelectChat(selectedChatId)

SpecSwitch == InitDecoder /\ [][NextSwitch]_vars

(***************************************************************************)
(* ProfileManager on its own (Chat is not mounted on its route).           *)
(***************************************************************************)
NextManager ==
  \/ \E providerType \in Providers : handleProviderChange(providerType)
  \/ RefreshModels
  \/ \E model \in {"qwen", "mistral", "llama3.2"} : handleModelChange(model)
  \/ \E models \in InstalledLists : ModelsResolve(models)
  \/ ModelsFail
  \/ handleSubmit
  \/ ProfileCreated
  \/ ProfileCreateFail

SpecManager == Init /\ [][NextManager]_vars

(***************************************************************************)
(* Properties.                                                             *)
(***************************************************************************)
Streams == {k \in 1..Len(subs) : subs[k].kind = "stream" /\ subs[k].phase # "forgotten"}

\* the streams whose body has been read to its end without a read error
FullyRead ==
  {k \in Streams : /\ subs[k].phase \in {"reading", "closed"}
                   /\ subs[k].next > Len(subs[k].transport)
                   /\ subs[k].errors = 0}

\* the last streaming submission, 0 if there is none
LastStream ==
  LET all == {k \in 1..Len(subs) : subs[k].kind = "stream"}
  IN  IF all = {} THEN 0 ELSE CHOOSE k \in all : \A j \in all : j <= k

\* the text of the fragments delivered for submission k, up to a sentinel
FragmentsText(datas) == Concat(FragmentTexts(BeforeSentinel(datas)))

IsPrefix(s, t) == Len(s) <= Len(t) /\ SubSeq(t, 1, Len(s)) = s

\* C1: a streaming send started while an earlier stream of the chat has not
\* terminated is refused (StreamAlreadyActive): at no time are two streams of
\* the chat open, and at no time are two of them being read.
C1_AtMostOneStream ==
  /\ Cardinality({k \in Streams : Active(k)}) <= 1
  /\ Cardinality(Reading) <= 1

\* C2: the live draft holds fragments of at most one submission, and no
\* fragment of an earlier stream is appended to it once a later streaming
\* submission has started.
C2_DraftOfOneSubmission ==
  /\ Cardinality(draftOwners) <= 1
  /\ draftOwners \subseteq {LastStream}

\* C3: after cancel the transport is aborted: no fragment callback and no
\* completion callback of a cancelled stream runs after the cancel, so no
\* fragment read after the cancel reaches the draft.
C3_CancelAborts ==
  \A k \in Streams :
    subs[k].cancel # <<>> =>
      /\ Len(subs[k].delivered) = subs[k].cancel[1].at
      /\ subs[k].completions = 0

\* C4: when fragments with a non-blank concatenation were delivered for a
\* submission and cancel is invoked, the view gains an assistant entry whose
\* content is the sanitized concatenation of these fragments.
C4_CancelSalvage ==
  \A k \in Streams :
    (subs[k].cancel # <<>> /\ subs[k].cancel[1].target = k) =>
      LET text == FragmentsText(SubSeq(subs[k].delivered, 1, subs[k].cancel[1].at))
      IN  Trim(text) # <<>> =>
            /\ Len(subs[k].cancel[1].added) = 1
            /\ subs[k].cancel[1].added[1].role = "assistant"
            /\ subs[k].cancel[1].added[1].content = sanitizeMarkdown(text)

\* C5: when a stream completes, the view gains an assistant entry whose
\* content is the sanitized concatenation of the fragments delivered for that
\* submission (an entry is added whenever that concatenation is not blank).
C5_CompletionEntry ==
  \A k \in Streams :
    subs[k].completions > 0 =>
      LET text == FragmentsText(subs[k].delivered)
      IN  IF Trim(text) # <<>>
          THEN /\ Len(CompletionEntry(k)) = 1
               /\ CompletionEntry(k)[1].content = sanitizeMarkdown(text)
          ELSE CompletionEntry(k) = <<>>

\* C6: while a single stream is active, the draft equals the concatenation of
\* the decoded payloads delivered to the fragment callback so far.
C6_DraftIsFragments ==
  \A k \in Reading :
    (Reading = {k} /\ k = Len(subs) /\ draftOwners \subseteq {k}) =>
      streamingMessage = FragmentsText(subs[k].delivered)

\* C7: a refetch that returns a list shorter than the local view leaves the
\* local view as it is.
C7_NonClobber ==
  [][(refetchPending /\ ~refetchPending' /\ Len(messages') < Len(localMessages))
       => localMessages' = localMessages]_vars

\* the blocks of the reads of stream k made so far
BlocksRead(k) ==
  Split(Concat(SubSeq(subs[k].transport, 1, subs[k].next - 1)), BlockSeparator)

C9_SentinelEndsDecoding ==
  \A k \in Streams :
    /\ \A i \in 1..Len(subs[k].delivered) : subs[k].delivered[i] # DoneSentinel
    /\ k \in FullyRead =>
         subs[k].delivered =
           BeforeSentinel(BlockPayloads(Split(BodyOf(subs[k].transport), BlockSeparator)))

\* C10: however the body is cut into reads, the fragments emitted are those of
\* the whole body arriving in one read: never a fragment of a partial block.
C10_ReadBoundaryIndependent ==
  \A k \in Streams :
    /\ IsPrefix(subs[k].delivered, ChunkData(BodyOf(subs[k].transport)))
    /\ k \in FullyRead => subs[k].delivered = ChunkData(BodyOf(subs[k].transport))

\* the payloads handed to the fragment callback for stream k by this step
NewData(k) ==
  SubSeq(subs'[k].delivered, Len(subs[k].delivered) + 1, Len(subs'[k].delivered))

\* C11: a data block whose payload is JSON-encoded text adds the decoded string
\* to the draft, a data block whose payload is not JSON adds the raw payload
\* unchanged, and a payload that does not parse neither ends the stream nor
\* raises an error.
C11_JsonOrRawFragment ==
  [][\A k \in 1..Len(subs) :
       (/\ k <= Len(subs')
        /\ subs[k].phase = "reading"
        /\ Len(subs'[k].delivered) > Len(subs[k].delivered)
        /\ \A i \in 1..Len(NewData(k)) : NewData(k)[i] # DoneSentinel)
       => /\ streamingMessage' = streamingMessage \o Concat(FragmentTexts(NewData(k)))
          /\ subs'[k].phase = "reading"
          /\ subs'[k].errors = subs[k].errors]_vars

\* C12: every submission of non-blank text, streamed or not, appends a user
\* entry with the submitted content at the end of the local view before the
\* request is issued and before any response arrives, and leaves the entries
\* already in the view as they are.
C12_OptimisticUserEntry ==
  [][Len(subs') > Len(subs) =>
       LET k == Len(subs')
           n == Len(localMessages')
       IN  /\ n = Len(localMessages) + 1
           /\ SubSeq(localMessages', 1, n - 1) = localMessages
           /\ localMessages'[n].role = "user"
           /\ localMessages'[n].content = subs'[k].content
           /\ Trim(subs'[k].content) # <<>>
           /\ subs'[k].phase = "requesting"
           /\ subs'[k].delivered = <<>>]_vars

\* a blocking submission made after a streamed one, its request in flight and
\* its user entry last in a view that kept the earlier entries
C12_Witness ==
  /\ Len(subs) = 2
  /\ subs[1].kind = "stream"
  /\ subs[2].kind = "blocking"
  /\ subs[2].phase = "requesting"
  /\ Len(localMessages) >= 2
  /\ localMessages[Len(localMessages)].role = "user"
  /\ localMessages[Len(localMessages)].content = subs[2].content

\* the entries committed to the view from a draft
Committed ==
  {i \in 1..Len(localMessages) :
     localMessages[i].role = "assistant" /\ localMessages[i].src = "local"}

\* C13: sanitize(sanitize(x)) = sanitize(x): sanitizing a committed (already
\* sanitized) text once more does not change it.
C13_SanitizeIdempotent ==
  \A i \in Committed :
    sanitizeMarkdown(localMessages[i].content) = localMessages[i].content

\* the text has one opening fence, a newline after it and no fence after it
OpenFence(x) ==
  LET open == IndexOfFrom(x, Fence, 1)
      rest == SubSeq(x, open + 3, Len(x))
  IN  /\ open # 0
      /\ Includes(rest, NewLine)
      /\ ~Includes(rest, <<BackQuote>>)

\* C14: for a text with an opening fence (optional language tag, newline, code
\* body) and no closing fence, the sanitizer returns the text with a closing
\* fence appended after the code body.
C14_FenceClosedAfterBody ==
  \A i \in Committed :
    (OpenFence(streamingMessage) /\ ~Includes(streamingMessage, Pipe)) =>
      localMessages[i].content = streamingMessage \o Fence

\* the text starts with the header row followed by a blank line, and has no
\* other table row and no fence
HeaderThenBlank(x) ==
  /\ StartsWith(x, HeaderRow \o NewLine \o NewLine)
  /\ ~Includes(Substring(x, Len(HeaderRow)), Pipe)
  /\ ~Includes(x, Fence)

\* C15: for a text whose header row is followed by a blank line with no
\* separator row, the sanitizer inserts the separator row with one dash cell
\* per column directly after the header, whether or not the text contains
\* three dashes anywhere else.
C15_SeparatorInserted ==
  \A i \in Committed :
    HeaderThenBlank(streamingMessage) =>
      localMessages[i].content =
        HeaderRow \o NewLine \o SeparatorRow \o Substring(streamingMessage, Len(HeaderRow))

\* every submission made so far has ended: no request and no stream is open
AllEnded ==
  /\ Len(subs) > 0
  /\ \A k \in 1..Len(subs) : ~Active(k)

\* C17: after a submission has ended, the timer-driven refetching stops after
\* a bounded number of refetches.  The query poll and the interval effect
\* refetch for as long as isTyping holds, and once nothing is in flight no
\* response or timer changes isTyping: they stop exactly if isTyping is off
\* when the submissions have ended.
C17_PollingStops == AllEnded => ~isTyping

\* C18: the resolution of a blocking request triggers a refetch of the
\* message list at once, whether the submission was blocking because streaming
\* was off or because the profile does not stream.
C18_BlockingResolveRefetches ==
  [][\A k \in 1..Len(subs) :
       (/\ k <= Len(subs')
        /\ subs[k].kind = "blocking"
        /\ subs[k].phase = "requesting"
        /\ subs'[k].phase = "resolved")
       => refetchPending']_vars

\* C19: a submission takes the streaming path exactly when streaming is
\* enabled and supportsStreaming(provider, url) holds for the profile; every
\* other submission makes one blocking request.
C19_StreamingPathChoice ==
  [][Len(subs') > Len(subs) =>
       (subs'[Len(subs')].kind = "stream"
          <=> (streamingEnabled /\ supportsStreaming(profile.provider, profile.url)))]_vars

\* C20: a read failure in the middle of a stream leaves the UI showing the
\* error with its retry action (the error of the mutation is set).
C20_ReadFailureShown ==
  [][\A k \in 1..Len(subs) :
       (k <= Len(subs') /\ subs'[k].errors > subs[k].errors)
       => mutation'.error # "none"]_vars

\* C21: a streaming send whose request fails (error status, no body, no
\* response) ends before the stream is read: at the step of the failure no
\* fragment, completion or error callback of that stream has run, the draft is
\* empty, isTyping is cleared and the mutation holds the error for the error
\* display.
C21_FailedRequestStartsNoStream ==
  [][\A k \in 1..Len(subs) :
       (/\ subs[k].kind = "stream"
        /\ subs[k].phase = "requesting"
        /\ subs'[k].phase = "failed")
       => /\ subs'[k].delivered = <<>>
          /\ subs'[k].completions = 0
          /\ subs'[k].errors = 0
          /\ streamingMessage' = <<>>
          /\ ~isTyping'
          /\ mutation'.status = "error"
          /\ mutation'.error # "none"]_vars

\* C22: when a send fails, the error the display is given is classified as a
\* model-API error exactly when the backend answered with the structured
\* payload whose code is the model-API code, for a streamed and for a blocking
\* send alike; a failure without a response is never classified so.
C22_ModelApiErrorClassified ==
  [][\A k \in 1..Len(subs) :
       (subs[k].phase = "requesting" /\ subs'[k].phase = "failed")
       => (isModelApiError(mutation'.error) <=> subs'[k].failure = "model_api")]_vars

\* C23: whenever no stream is in flight (before the first send, after a stream
\* has ended by completion, error or cancellation) the draft is empty.
C23_DraftEmptyWhenIdle ==
  (\A k \in 1..Len(subs) : subs[k].kind = "stream" => ~Active(k))
  => streamingMessage = <<>>

\* C24: when a model-discovery request fails, the step of the failure clears
\* the loading flag and empties the list of installed models, the popular
\* models stay among the options of the model select, and the form stays as
\* submittable as it was: the submit button keeps its state and the form
\* keeps its values.
C24_DiscoveryFailureLeavesFormUsable ==
  [][ModelsFail
     => /\ ~isLoadingModels'
        /\ installedOllamaModels' = <<>>
        /\ modelError'
        /\ PopularModels \subseteq ModelOptions'
        /\ ModelOptions' = PopularModels
        /\ SubmitEnabled' = SubmitEnabled
        /\ formData' = formData]_vars

\* a discovery has failed after an earlier one had listed models, and the form
\* has then been submitted with a popular model
C24_Witness ==
  /\ modelError
  /\ ~isLoadingModels
  /\ installedOllamaModels = <<>>
  /\ formData = [provider |-> "ollama", model_name |-> "mistral"]
  /\ createProfileMutation = "pending"

\* C25: when a fetch of the messages query resolves with a non-empty list that
\* holds the stored counterpart of every optimistic or locally materialized
\* entry of the view, the view is replaced by that list: it equals the list
\* and no local entry remains.
Covered(list, local) ==
  \A i \in 1..Len(local) :
    local[i].src = "local"
    => \E j \in 1..Len(list) :
         list[j].role = local[i].role /\ list[j].sub = local[i].sub

C25_RefetchReplacesView ==
  [][(/\ refetchPending
      /\ ~refetchPending'
      /\ Len(messages') > 0
      /\ Covered(messages', localMessages))
     => localMessages' = messages']_vars

\* C26: every stream gets exactly one terminal callback, once: onComplete when
\* the body ends, onError when a read fails; a stream that has ended with a
\* read error has had no onComplete.
C26_OneTerminalCallback ==
  \A k \in 1..Len(subs) :
    subs[k].kind = "stream"
    => /\ subs[k].completions + subs[k].errors <= 1
       /\ subs[k].errors > 0 => subs[k].completions = 0
       /\ subs[k].phase = "closed" => subs[k].completions + subs[k].errors = 1

\* C27: the view never holds more than one locally added assistant entry for
\* one submission, also when the stream is cancelled and its completion
\* callback runs afterwards.
LocalAssistantEntries(k) ==
  {i \in 1..Len(localMessages) :
     /\ localMessages[i].role = "assistant"
     /\ localMessages[i].src = "local"
     /\ localMessages[i].sub = k}

C28_TypingClearedOnTermination ==
  [][\A k \in 1..Len(subs) :
       (/\ subs[k].phase \in {"requesting", "reading"}
        /\ subs'[k].phase \in {"resolved", "closed", "failed"}
        /\ \A j \in 1..Len(subs') : subs'[j].phase \notin {"requesting", "reading"})
       => ~isTyping']_vars

\* C29: every entry of the displayed view belongs to the chat that is open,
\* and so does every fragment of the draft: after the history sidebar has
\* opened another chat and its messages have loaded, nothing of the chat
\* shown before is displayed.
C29_ViewOfOpenChat ==
  loaded
  => /\ \A i \in 1..Len(localMessages) : ChatOf(localMessages[i]) = chatId
     /\ \A k \in draftOwners : subs[k].chat = chatId

\* every fence of the text is exactly three backquotes at the start of a line,
\* and the fences pair up: an opening fence with its line, a body and a closing
\* fence on a line of its own
FencesClosed(x) ==
  LET parts == Split(x, Fence)
  IN  /\ Len(parts) % 2 = 1
      /\ \A n \in 1..Len(parts) : ~Includes(parts[n], <<BackQuote>>)
      /\ \A n \in 1..Len(parts) :
           IF n % 2 = 0
           THEN EndsWith(parts[n], NewLine)
           ELSE n < Len(parts) => (parts[n] = <<>> /\ n = 1) \/ EndsWith(parts[n], NewLine)

\* a row of dash cells, with or without blanks around the dashes
IsSeparatorLine(line) ==
  /\ IsTableRow(Trim(line))
  /\ Includes(line, Dashes)
  /\ \A k \in 1..Len(line) : line[k] \in {"-", "|", " "}

\* the first row of every run of table rows is directly followed by a
\* separator row
TablesSeparated(x) ==
  LET lines == Split(x, NewLine)
  IN  \A n \in 1..Len(lines) :
        (/\ IsTableRow(Trim(lines[n]))
         /\ (n = 1 \/ ~IsTableRow(Trim(lines[n - 1]))))
        => (n < Len(lines) /\ IsSeparatorLine(lines[n + 1]))

StructurallyComplete(x) == FencesClosed(x) /\ TablesSeparated(x)

\* C30: for a text that is structurally complete (every opening fence has its
\* closing fence, every table header row is directly followed by a separator
\* row, the row "| --- | --- |" the sanitizer writes included) the sanitizer
\* returns the text unchanged.
C30_CompleteTextUnchanged ==
  \A i \in Committed :
    StructurallyComplete(streamingMessage) =>
      localMessages[i].content = streamingMessage

====
